---- MODULE Spec2Model ----
(***************************************************************************)
(* Model of two O2Physics tasks:                                           *)
(*   PWGHF/TableProducer/candidateSelectorBplusToD0Pi.cxx                  *)
(*     HfCandidateSelectorBplusToD0Pi: init, selectionTopol, selectionPID, *)
(*     process (one status row per B+ candidate)                           *)
(*   PWGLF/Tasks/k1analysis.cxx                                            *)
(*     k1analysis: trackCut, fillHistograms, processData, processME        *)
(* Floating point quantities are integers in a fixed unit; only their      *)
(* order relative to the configured thresholds matters to the code.        *)
(***************************************************************************)
EXTENDS Integers, Sequences, FiniteSets, TLC

VARIABLES
  pc,                            \* position of the selector task: "init", "process"
  usePid,                        \* Configurable usePid
  acceptPIDNotApplicable,        \* Configurable acceptPIDNotApplicable
  activateQA,                    \* Configurable activateQA
  workflows,                     \* RunningWorkflowInfo::devices seen by init
  selectionFlagDAndUsePidInSync, \* member flag set by init
  hfCandBs,                      \* rows of the input table consumed so far
  hfSelBplusToD0PiCandidate,     \* output table: one status per appended row
  rowOwner,                      \* for each output row, the input row it was emitted for
  registry,                      \* fills of the QA histogram hSelections
  callLog,                       \* for each input row, the selection functions called for it
  kaonTPCPIDpTintv,              \* Configurable kaonTPCPIDpTintv
  kaonTPCPIDcuts,                \* Configurable kaonTPCPIDcuts
  kaonTOFPIDpTintv,              \* Configurable kaonTOFPIDpTintv
  kaonTOFPIDcuts,                \* Configurable kaonTOFPIDcuts
  cDoTOFPID,                     \* Configurable cDoTOFPID
  cPiPiMin,                      \* Configurable cPiPiMin
  cPiPiMax,                      \* Configurable cPiPiMax
  indexIsGlobal,                 \* whether index() of a sliced row counts from the table or the slice
  collisions,                    \* ResoCollisions table of the data frame
  resotracks,                    \* ResoTracks table of the data frame, grouped by collision
  k1pc,                          \* which process function of k1analysis ran last
  nextCol,                       \* next collision handed to processDataLight
  histos,                        \* fills of the histogram registry
  thirdLoops,                    \* pion-kaon pairs for which the third-track loop was entered
  kaonReads,                     \* element accesses made by the kaon breakpoint loops
  wild                           \* what reading past the end of a vector does in this run

selVars == <<pc, usePid, acceptPIDNotApplicable, activateQA, workflows,
             selectionFlagDAndUsePidInSync, hfCandBs,
             hfSelBplusToD0PiCandidate, rowOwner, registry, callLog>>

k1Cfg == <<kaonTPCPIDpTintv, kaonTPCPIDcuts, kaonTOFPIDpTintv, kaonTOFPIDcuts,
           cDoTOFPID, cPiPiMin, cPiPiMax, indexIsGlobal, collisions, resotracks, wild>>

k1Vars == <<k1Cfg, k1pc, nextCol, histos, thirdLoops, kaonReads>>

vars == <<selVars, k1Vars>>

-----------------------------------------------------------------------------
(* Bounds *)

MaxCands == 2

-----------------------------------------------------------------------------
(* Enumerations used by the selector *)

\* SelectionStep
RecoSkims == 0
RecoTopol == 1
RecoPID == 2

\* hf_cand_bplus::DecayType
BplusToD0Pi == 0

\* TrackSelectorPID::Status
PIDStatus == {"PIDNotApplicable", "PIDRejected", "PIDConditional", "PIDAccepted"}

\* RecoDecay::getMassPDG(pdg::Code::kD0), MeV
MassD0 == 1865

Abs(x) == IF x < 0 THEN -x ELSE x

RECURSIVE Pow2(_)
Pow2(n) == IF n = 0 THEN 1 ELSE 2 * Pow2(n - 1)

\* value & (1 << bit)
TESTBIT(value, bit) == (value \div Pow2(bit)) % 2 = 1

SETBIT_assign(value, bit) == Pow2(bit)

\* value |= (1 << bit)
SETBIT(value, bit) == IF TESTBIT(value, bit) THEN value ELSE value + Pow2(bit)

-----------------------------------------------------------------------------
(* Configuration of the topological cuts *)

\* Configurable binsPt: two pT bins [1,2) and [2,3)
binsPt == <<1, 2, 3>>

\* Configurable cuts: one row of thresholds per pT bin (bin 0 loose, bin 1 tight)
cuts == <<[pTPi |-> 1, ImpParProduct |-> 0, DeltaMD0 |-> 10, BdecLen |-> 1,
           BdecLenXY |-> 1, CPA |-> 8, d0D0 |-> 1, d0Pi |-> 1],
          [pTPi |-> 2, ImpParProduct |-> -1, DeltaMD0 |-> 5, BdecLen |-> 2,
           BdecLenXY |-> 2, CPA |-> 9, d0D0 |-> 2, d0Pi |-> 2]>>

\* findBin(bins, value): index of the half-open bin [e_i, e_{i+1}) holding
\* value, counted from 0, or -1 when value is outside all bins
findBin(bins, value) ==
  IF value < bins[1] THEN -1
  ELSE IF value >= bins[Len(bins)] THEN -1
  ELSE (CHOOSE i \in 1..(Len(bins) - 1) : bins[i] <= value /\ value < bins[i + 1]) - 1

-----------------------------------------------------------------------------
(* Input candidates *)

\* A candidate that sits exactly on every threshold of the tight bin
BaseCand ==
  [hfflag |-> 1, pt |-> 2, ptPi |-> 2, impactParameterProduct |-> -1,
   sign |-> 1, invMassD0barToKPi |-> MassD0 + 5, invMassD0ToPiK |-> MassD0 - 5,
   decayLength |-> 2, decayLengthXY |-> 2, cpa |-> 9,
   impactParameter0 |-> -2, impactParameter1 |-> 2,
   pidTrackPi |-> "PIDAccepted"]

\* Values each field takes in the inputs
CandValues ==
  [hfflag |-> 0..3, pt |-> 0..3, ptPi |-> {1, 2}, impactParameterProduct |-> {-1, 0},
   sign |-> {-1, 1},
   invMassD0barToKPi |-> {MassD0 - 6, MassD0 + 5},
   invMassD0ToPiK |-> {MassD0 - 5, MassD0 + 6},
   decayLength |-> {1, 2}, decayLengthXY |-> {1, 2}, cpa |-> {8, 9},
   impactParameter0 |-> {-2, -1, 2}, impactParameter1 |-> {-1, 2},
   pidTrackPi |-> PIDStatus]

\* All candidates that differ from b in at most one of the fields fs
OneOff(b, fs) == {b} \cup UNION {{[b EXCEPT ![f] = v] : v \in CandValues[f]} : f \in fs}

\* Values of the cut variables on the thresholds of the loose bin, and below
\* them for the pion pT and the pointing angle
LooseValues ==
  [ptPi |-> {0, 1}, impactParameterProduct |-> {0},
   invMassD0barToKPi |-> {MassD0 - 10},
   decayLength |-> {1}, decayLengthXY |-> {1}, cpa |-> {7, 8},
   impactParameter0 |-> {1}, impactParameter1 |-> {-1}]

\* the candidates of the tight bin, those with a negative pion, and those of
\* the loose bin
CandSet ==
  OneOff(BaseCand, DOMAIN BaseCand)
  \cup OneOff([BaseCand EXCEPT !.sign = -1], {"invMassD0barToKPi", "invMassD0ToPiK"})
  \cup UNION {{[BaseCand EXCEPT !.pt = 1, ![f] = v] : v \in LooseValues[f]} :
               f \in DOMAIN LooseValues}

\* Device lists the init context can hold
Device(name, d0, d0bar) ==
  [name |-> name,
   options |-> <<[name |-> "selectionFlagD0", defaultValue |-> d0],
                 [name |-> "selectionFlagD0bar", defaultValue |-> d0bar]>>]

WorkflowSet ==
  {<<>>,
   <<Device("hf-candidate-selector-d0", 0, 0)>>,
   <<Device("hf-candidate-creator-bplus", 0, 0)>>,
   <<Device("hf-candidate-creator-bplus", 1, 1)>>}

-----------------------------------------------------------------------------
(* HfCandidateSelectorBplusToD0Pi::init *)

\* value of an option after the scan over devices and options: the last
\* matching option of a matching device wins, -1 when there is none
RECURSIVE scanOptions(_, _, _)
scanOptions(options, optName, cur) ==
  IF options = <<>> THEN cur
  ELSE scanOptions(Tail(options), optName,
                   IF Head(options).name = optName THEN Head(options).defaultValue ELSE cur)

RECURSIVE scanDevices(_, _, _)
scanDevices(devices, optName, cur) ==
  IF devices = <<>> THEN cur
  ELSE scanDevices(Tail(devices), optName,
                   IF Head(devices).name = "hf-candidate-creator-bplus"
                   THEN scanOptions(Head(devices).options, optName, cur)
                   ELSE cur)

\* the flag after the two consistency tests; an int is true when non-zero
initInSync(pid, devices) ==
  LET selectionFlagD0 == scanDevices(devices, "selectionFlagD0", -1)
      selectionFlagD0bar == scanDevices(devices, "selectionFlagD0bar", -1)
      s1 == IF (pid /\ selectionFlagD0 = 0) \/ (pid /\ selectionFlagD0bar = 0)
            THEN FALSE ELSE TRUE
  IN IF (~pid /\ selectionFlagD0 # 0) \/ (~pid /\ selectionFlagD0bar # 0)
     THEN FALSE ELSE s1

init ==
  /\ pc = "init"
  /\ selectionFlagDAndUsePidInSync' = initInSync(usePid, workflows)
  /\ pc' = "process"
  /\ UNCHANGED <<usePid, acceptPIDNotApplicable, activateQA, workflows, hfCandBs,
                 hfSelBplusToD0PiCandidate, rowOwner, registry, callLog, k1Vars>>

-----------------------------------------------------------------------------
(* HfCandidateSelectorBplusToD0Pi::selectionTopol *)

d0MassChecks_both(sign) == {"D0barToKPi", "D0ToPiK"}

\* the D0 mass hypotheses whose window is tested for a pion of charge sign:
\* the two if blocks on trackPi.sign()
d0MassChecks(sign) ==
  (IF sign > 0 THEN {"D0barToKPi"} ELSE {}) \cup (IF sign < 0 THEN {"D0ToPiK"} ELSE {})

\* invMassD0barToKPi(hfCandD0) or invMassD0ToPiK(hfCandD0)
invMassD0(c, h) == IF h = "D0barToKPi" THEN c.invMassD0barToKPi ELSE c.invMassD0ToPiK

selectionTopolInBin_strictCPA(c, pTBin) ==
  LET cut == cuts[pTBin + 1]
  IN IF c.ptPi < cut.pTPi THEN FALSE
     ELSE IF c.impactParameterProduct > cut.ImpParProduct THEN FALSE
     ELSE IF \E h \in d0MassChecks(c.sign) : Abs(invMassD0(c, h) - MassD0) > cut.DeltaMD0
          THEN FALSE
     ELSE IF c.decayLength < cut.BdecLen THEN FALSE
     ELSE IF c.decayLengthXY < cut.BdecLenXY THEN FALSE
     ELSE IF c.cpa <= cut.CPA THEN FALSE
     ELSE IF Abs(c.impactParameter0) < cut.d0D0 THEN FALSE
     ELSE IF Abs(c.impactParameter1) < cut.d0Pi THEN FALSE
     ELSE TRUE

\* the cuts read with the thresholds of bin pTBin, in the order of the code
selectionTopolInBin(c, pTBin) ==
  LET cut == cuts[pTBin + 1]
  IN IF c.ptPi < cut.pTPi THEN FALSE
     ELSE IF c.impactParameterProduct > cut.ImpParProduct THEN FALSE
     ELSE IF \E h \in d0MassChecks(c.sign) : Abs(invMassD0(c, h) - MassD0) > cut.DeltaMD0
          THEN FALSE
     ELSE IF c.decayLength < cut.BdecLen THEN FALSE
     ELSE IF c.decayLengthXY < cut.BdecLenXY THEN FALSE
     ELSE IF c.cpa < cut.CPA THEN FALSE
     ELSE IF Abs(c.impactParameter0) < cut.d0D0 THEN FALSE
     ELSE IF Abs(c.impactParameter1) < cut.d0Pi THEN FALSE
     ELSE TRUE

selectionTopol_binNotFoundPasses(c) ==
  LET pTBin == findBin(binsPt, c.pt)
  IN IF pTBin = -1 THEN TRUE ELSE selectionTopolInBin(c, pTBin)

selectionTopol(c) ==
  LET pTBin == findBin(binsPt, c.pt)
  IN IF pTBin = -1 THEN FALSE ELSE selectionTopolInBin(c, pTBin)

-----------------------------------------------------------------------------
(* HfCandidateSelectorBplusToD0Pi::selectionPID *)

selectionPID_acceptedOnly(pidTrackPi) == pidTrackPi = "PIDAccepted"

selectionPID(pidTrackPi) ==
  IF ~acceptPIDNotApplicable /\ pidTrackPi # "PIDAccepted" THEN FALSE
  ELSE IF acceptPIDNotApplicable /\ pidTrackPi = "PIDRejected" THEN FALSE
  ELSE TRUE

-----------------------------------------------------------------------------
(* HfCandidateSelectorBplusToD0Pi::process *)

hasSkimFlag_anyBit(hfflag) == hfflag # 0

\* hfCandB.hfflag() & 1 << hf_cand_bplus::DecayType::BplusToD0Pi
hasSkimFlag(hfflag) == TESTBIT(hfflag, BplusToD0Pi)

\* registry.fill(HIST("hSelections"), 2 + step, ptCandB) when qa is on
qaFill(qa, step, ptCandB) == IF qa THEN <<<<2 + step, ptCandB>>>> ELSE <<>>

\* What one pass through the loop body leaves behind: the rows appended to
\* the output table, the histogram fills and the selection calls made
Pass(rows, fills, calls) == [rows |-> rows, fills |-> fills, calls |-> calls]

pidStage_noContinue(statusBplus, fills, calls, hfCandB, qa) ==
  IF ~selectionFlagDAndUsePidInSync
  THEN Pass(<<statusBplus>>, fills, calls)
  ELSE IF usePid
  THEN IF ~selectionPID(hfCandB.pidTrackPi)
       THEN Pass(<<statusBplus, statusBplus>>, fills, calls \o <<"selectionPID">>)
       ELSE Pass(<<SETBIT(statusBplus, RecoPID)>>,
                 fills \o qaFill(qa, RecoPID, hfCandB.pt), calls \o <<"selectionPID">>)
  ELSE Pass(<<statusBplus>>, fills, calls)

pidStage_ignoreUsePid(statusBplus, fills, calls, hfCandB, qa) ==
  IF ~selectionFlagDAndUsePidInSync
  THEN Pass(<<statusBplus>>, fills, calls)
  ELSE IF ~selectionPID(hfCandB.pidTrackPi)
       THEN Pass(<<statusBplus>>, fills, calls \o <<"selectionPID">>)
       ELSE Pass(<<SETBIT(statusBplus, RecoPID)>>,
                 fills \o qaFill(qa, RecoPID, hfCandB.pt), calls \o <<"selectionPID">>)

pidStage_ignoreSync(statusBplus, fills, calls, hfCandB, qa) ==
  IF usePid
  THEN IF ~selectionPID(hfCandB.pidTrackPi)
       THEN Pass(<<statusBplus>>, fills, calls \o <<"selectionPID">>)
       ELSE Pass(<<SETBIT(statusBplus, RecoPID)>>,
                 fills \o qaFill(qa, RecoPID, hfCandB.pt), calls \o <<"selectionPID">>)
  ELSE Pass(<<statusBplus>>, fills, calls)

\* from the consistency check to the end of the loop body
pidStage(statusBplus, fills, calls, hfCandB, qa) ==
  IF ~selectionFlagDAndUsePidInSync
  THEN Pass(<<statusBplus>>, fills, calls)
  ELSE IF usePid
  THEN IF ~selectionPID(hfCandB.pidTrackPi)
       THEN Pass(<<statusBplus>>, fills, calls \o <<"selectionPID">>)
       ELSE Pass(<<SETBIT(statusBplus, RecoPID)>>,
                 fills \o qaFill(qa, RecoPID, hfCandB.pt), calls \o <<"selectionPID">>)
  ELSE Pass(<<statusBplus>>, fills, calls)

topolStage_bitInsideQA(statusBplus, fills, calls, hfCandB, qa) ==
  IF ~selectionTopol(hfCandB)
  THEN Pass(<<statusBplus>>, fills, calls \o <<"selectionTopol">>)
  ELSE pidStage(IF qa THEN SETBIT(statusBplus, RecoTopol) ELSE statusBplus,
                fills \o qaFill(qa, RecoTopol, hfCandB.pt),
                calls \o <<"selectionTopol">>, hfCandB, qa)

\* the topological cuts and what follows them
topolStage(statusBplus, fills, calls, hfCandB, qa) ==
  IF ~selectionTopol(hfCandB)
  THEN Pass(<<statusBplus>>, fills, calls \o <<"selectionTopol">>)
  ELSE pidStage(SETBIT(statusBplus, RecoTopol),
                fills \o qaFill(qa, RecoTopol, hfCandB.pt),
                calls \o <<"selectionTopol">>, hfCandB, qa)

\* one pass through the body of the candidate loop, statusBplus starting at 0
loopBody(hfCandB, qa) ==
  LET statusBplus == 0
      ptCandB == hfCandB.pt
  IN IF ~hasSkimFlag(hfCandB.hfflag)
     THEN Pass(<<statusBplus>>, <<>>, <<>>)
     ELSE topolStage(SETBIT(statusBplus, RecoSkims), qaFill(qa, RecoSkims, ptCandB),
                     <<>>, hfCandB, qa)

\* The next candidate of the input table goes through the loop body
process ==
  /\ pc = "process"
  /\ Len(hfCandBs) < MaxCands
  /\ \E hfCandB \in CandSet :
       LET r == loopBody(hfCandB, activateQA)
           n == Len(hfCandBs) + 1
       IN /\ hfCandBs' = Append(hfCandBs, hfCandB)
          /\ hfSelBplusToD0PiCandidate' = hfSelBplusToD0PiCandidate \o r.rows
          /\ rowOwner' = rowOwner \o [i \in 1..Len(r.rows) |-> n]
          /\ registry' = registry \o r.fills
          /\ callLog' = Append(callLog, r.calls)
  /\ UNCHANGED <<pc, usePid, acceptPIDNotApplicable, activateQA, workflows,
                 selectionFlagDAndUsePidInSync, k1Vars>>

-----
(* Specification of the selector task *)

\* the k1analysis task with empty tables and its default configuration
K1Idle ==
  /\ kaonTPCPIDpTintv = <<99900>> /\ kaonTPCPIDcuts = <<20>>
  /\ kaonTOFPIDpTintv = <<99900>> /\ kaonTOFPIDcuts = <<20>>
  /\ cDoTOFPID = 1 /\ cPiPiMin = 0 /\ cPiPiMax = 999000
  /\ indexIsGlobal = TRUE
  /\ collisions = <<>> /\ resotracks = <<>>
  /\ k1pc = "idle" /\ nextCol = 1
  /\ histos = {} /\ thirdLoops = {}
  /\ kaonReads = {} /\ wild = [fault |-> FALSE, value |-> 0]

Init ==
  /\ K1Idle
  /\ pc = "init"
  /\ usePid \in BOOLEAN
  /\ acceptPIDNotApplicable \in BOOLEAN
  /\ activateQA \in BOOLEAN
  /\ workflows \in WorkflowSet
  /\ selectionFlagDAndUsePidInSync = TRUE
  /\ hfCandBs = <<>>
  /\ hfSelBplusToD0PiCandidate = <<>>
  /\ rowOwner = <<>>
  /\ registry = <<>>
  /\ callLog = <<>>

Next == init \/ process

Spec == Init /\ [][Next]_vars

-----------------------------------------------------------------------------
(* Properties of the selector task *)

OutRows == DOMAIN hfSelBplusToD0PiCandidate

\* the input row an output row was emitted for
CandOfRow(r) == hfCandBs[rowOwner[r]]

\* the statuses emitted for input row i
StatusOf(i) == {hfSelBplusToD0PiCandidate[r] : r \in {q \in OutRows : rowOwner[q] = i}}

\* C1: every emitted status is prefix-set: a set bit k (RecoSkims, RecoTopol,
\* RecoPID) has every lower bit set, so only 0, 1, 3 and 7 are emitted
C1_StatusPrefixSet ==
  \A r \in OutRows :
    /\ hfSelBplusToD0PiCandidate[r] \in {0, 1, 3, 7}
    /\ \A k \in {RecoSkims, RecoTopol, RecoPID} :
         TESTBIT(hfSelBplusToD0PiCandidate[r], k)
           => \A j \in 0..(k - 1) : TESTBIT(hfSelBplusToD0PiCandidate[r], j)

C1_Witness ==
  \E r \in OutRows : hfSelBplusToD0PiCandidate[r] = 7

\* C2: after n candidates the output table has n rows and row i was emitted
\* for candidate i, whichever path each candidate took through the loop body
C2_OneRowPerCandidateInOrder ==
  /\ Len(hfSelBplusToD0PiCandidate) = Len(hfCandBs)
  /\ rowOwner = [i \in 1..Len(hfCandBs) |-> i]

C2_Witness ==
  /\ Len(hfCandBs) = 2
  /\ usePid /\ selectionFlagDAndUsePidInSync
  /\ hfCandBs[1].pidTrackPi = "PIDRejected"
  /\ hfSelBplusToD0PiCandidate = <<3, 0>>

\* C3: a candidate whose hfflag lacks the BplusToD0Pi bit gets status 0 and
\* neither selectionTopol nor selectionPID is called for it
C3_NoSkimFlagGivesZero ==
  \A i \in DOMAIN hfCandBs :
    ~TESTBIT(hfCandBs[i].hfflag, BplusToD0Pi)
      => StatusOf(i) = {0} /\ callLog[i] = <<>>

C3_Witness ==
  \E i \in DOMAIN hfCandBs :
    /\ hfCandBs[i].hfflag = 2
    /\ usePid /\ selectionFlagDAndUsePidInSync
    /\ StatusOf(i) = {0}

\* C4: with usePid = false a skim-flagged candidate that passes selectionTopol
\* gets status 3, whatever the consistency flag and the pion's PID status are
C4_NoPidGivesSkimAndTopol ==
  \A i \in DOMAIN hfCandBs :
    (~usePid /\ TESTBIT(hfCandBs[i].hfflag, BplusToD0Pi) /\ selectionTopol(hfCandBs[i]))
      => StatusOf(i) = {3}

C4_Witness ==
  \E i \in DOMAIN hfCandBs :
    /\ ~usePid /\ selectionFlagDAndUsePidInSync
    /\ TESTBIT(hfCandBs[i].hfflag, BplusToD0Pi) /\ selectionTopol(hfCandBs[i])
    /\ hfCandBs[i].pidTrackPi = "PIDAccepted"
    /\ StatusOf(i) = {3}

\* C5: the status of a candidate depends on the candidate and the selection
\* configuration only: equal candidates get equal statuses wherever they
\* stand in the batch, and the status is the one a pass through the loop
\* body gives with activateQA on and with activateQA off
C5_StatusDependsOnCandidateOnly ==
  /\ \A i, j \in DOMAIN hfCandBs :
       hfCandBs[i] = hfCandBs[j] => StatusOf(i) = StatusOf(j)
  /\ \A i \in DOMAIN hfCandBs : \A qa \in BOOLEAN :
       StatusOf(i) = {loopBody(hfCandBs[i], qa).rows[1]}

C5_Witness ==
  /\ Len(hfCandBs) = 2
  /\ hfCandBs[1] = hfCandBs[2]
  /\ activateQA
  /\ registry # <<>>
  /\ StatusOf(2) = {7}

\* C9: a skim-flagged candidate whose pT is in no bin of binsPt gets status 1,
\* and the candidates after it are still processed
C9_BinNotFoundGivesSkimOnly ==
  \A i \in DOMAIN hfCandBs :
    (TESTBIT(hfCandBs[i].hfflag, BplusToD0Pi) /\ findBin(binsPt, hfCandBs[i].pt) = -1)
      => /\ StatusOf(i) = {1}
         /\ \A j \in DOMAIN hfCandBs : StatusOf(j) # {}

C9_Witness ==
  /\ Len(hfCandBs) = 2
  /\ hfCandBs[1].pt = 3 /\ hfCandBs[1].hfflag = 1
  /\ StatusOf(1) = {1}
  /\ StatusOf(2) = {7}

\* what the acceptPIDNotApplicable flag prescribes for a PID status
PidPrescribed(flag, pidTrackPi) ==
  IF flag THEN pidTrackPi # "PIDRejected" ELSE pidTrackPi = "PIDAccepted"

\* C10: selectionPID passes exactly the statuses the acceptPIDNotApplicable
\* flag prescribes, and the RecoPID bit of a candidate that reaches the PID
\* stage is set exactly for them
C10_SelectionPidFollowsFlag ==
  /\ \A s \in PIDStatus : selectionPID(s) <=> PidPrescribed(acceptPIDNotApplicable, s)
  /\ \A i \in DOMAIN hfCandBs :
       (usePid /\ selectionFlagDAndUsePidInSync
        /\ TESTBIT(hfCandBs[i].hfflag, BplusToD0Pi) /\ selectionTopol(hfCandBs[i]))
         => StatusOf(i) = {IF PidPrescribed(acceptPIDNotApplicable, hfCandBs[i].pidTrackPi)
                           THEN 7 ELSE 3}

C10_Witness ==
  \E i, j \in DOMAIN hfCandBs :
    /\ usePid /\ selectionFlagDAndUsePidInSync /\ acceptPIDNotApplicable
    /\ hfCandBs[i].pidTrackPi = "PIDNotApplicable" /\ StatusOf(i) = {7}
    /\ hfCandBs[j].pidTrackPi = "PIDRejected" /\ StatusOf(j) = {3}

\* C11: the RecoPID bit is set only when usePid and the consistency flag are
\* both true and the pion's PID status passes selectionPID; with the flag
\* false a candidate that passed skim and topology gets status 3 and its PID
\* status is never evaluated
C11_RecoPidNeedsSyncAndPid ==
  \A i \in DOMAIN hfCandBs :
    /\ (\E st \in StatusOf(i) : TESTBIT(st, RecoPID))
         => /\ usePid /\ selectionFlagDAndUsePidInSync
            /\ selectionPID(hfCandBs[i].pidTrackPi)
    /\ (~selectionFlagDAndUsePidInSync
        /\ TESTBIT(hfCandBs[i].hfflag, BplusToD0Pi) /\ selectionTopol(hfCandBs[i]))
         => /\ StatusOf(i) = {3}
            /\ \A k \in DOMAIN callLog[i] : callLog[i][k] # "selectionPID"

C11_Witness ==
  \E i \in DOMAIN hfCandBs :
    /\ usePid /\ ~selectionFlagDAndUsePidInSync
    /\ TESTBIT(hfCandBs[i].hfflag, BplusToD0Pi) /\ selectionTopol(hfCandBs[i])
    /\ hfCandBs[i].pidTrackPi = "PIDAccepted"
    /\ StatusOf(i) = {3}
    /\ callLog[i] = <<"selectionTopol">>

\* no device named hf-candidate-creator-bplus declares selectionFlagD0 or
\* selectionFlagD0bar
producerAbsent(devices) ==
  \A d \in DOMAIN devices :
    devices[d].name = "hf-candidate-creator-bplus"
      => \A o \in DOMAIN devices[d].options :
           devices[d].options[o].name \notin {"selectionFlagD0", "selectionFlagD0bar"}

\* C12: when init finds no hf-candidate-creator-bplus device declaring
\* selectionFlagD0 or selectionFlagD0bar, selectionFlagDAndUsePidInSync is
\* true after init, for usePid = true and for usePid = false
C12_AbsentProducerStaysInSync ==
  (pc = "process" /\ producerAbsent(workflows)) => selectionFlagDAndUsePidInSync

\* a D0 mass outside the window of every pT bin
MassOutside == MassD0 + 11

\* C13: for every candidate exactly one of the two D0 mass windows is tested,
\* the one of the hypothesis its pion's charge selects: the mass under the
\* other hypothesis never changes the outcome of selectionTopol (never
\* both), and a selected mass outside the window always fails it (never
\* neither)
C13_ExactlyOneD0MassCheck ==
  \A i \in DOMAIN hfCandBs :
    LET c == hfCandBs[i]
        chosen == IF c.sign > 0 THEN "invMassD0barToKPi" ELSE "invMassD0ToPiK"
        other == IF c.sign > 0 THEN "invMassD0ToPiK" ELSE "invMassD0barToKPi"
    IN /\ Cardinality(d0MassChecks(c.sign)) = 1
       /\ d0MassChecks(c.sign) = {IF c.sign > 0 THEN "D0barToKPi" ELSE "D0ToPiK"}
       /\ selectionTopol([c EXCEPT ![other] = MassOutside]) = selectionTopol(c)
       /\ ~selectionTopol([c EXCEPT ![chosen] = MassOutside])
       /\ (\E st \in StatusOf(i) : TESTBIT(st, RecoTopol))
            => Abs(c[chosen] - MassD0) <= cuts[findBin(binsPt, c.pt) + 1].DeltaMD0

C13_Witness ==
  \E i, j \in DOMAIN hfCandBs :
    /\ hfCandBs[i].sign > 0 /\ hfCandBs[i].invMassD0ToPiK = MassD0 + 6
    /\ \E st \in StatusOf(i) : TESTBIT(st, RecoTopol)
    /\ hfCandBs[j].sign < 0 /\ hfCandBs[j].invMassD0barToKPi = MassD0 - 6
    /\ \E st \in StatusOf(j) : TESTBIT(st, RecoTopol)

\* every cut of selectionTopol holds with the thresholds cut
TopolCutsHold(c, cut) ==
  /\ c.ptPi >= cut.pTPi
  /\ c.impactParameterProduct <= cut.ImpParProduct
  /\ Abs((IF c.sign > 0 THEN c.invMassD0barToKPi ELSE c.invMassD0ToPiK) - MassD0)
       <= cut.DeltaMD0
  /\ c.decayLength >= cut.BdecLen
  /\ c.decayLengthXY >= cut.BdecLenXY
  /\ c.cpa >= cut.CPA
  /\ Abs(c.impactParameter0) >= cut.d0D0
  /\ Abs(c.impactParameter1) >= cut.d0Pi

\* C14: for a candidate whose pT is in a bin of binsPt, selectionTopol is
\* true exactly when every cut holds with the thresholds of that bin, a value
\* equal to its threshold passing; a skim-flagged candidate gets the
\* RecoTopol bit exactly then
C14_TopolIffAllCuts ==
  \A i \in DOMAIN hfCandBs :
    LET c == hfCandBs[i]
        pTBin == findBin(binsPt, c.pt)
    IN pTBin # -1
         => /\ selectionTopol(c) <=> TopolCutsHold(c, cuts[pTBin + 1])
            /\ TESTBIT(c.hfflag, BplusToD0Pi)
                 => ((\E st \in StatusOf(i) : TESTBIT(st, RecoTopol))
                       <=> TopolCutsHold(c, cuts[pTBin + 1]))

C14_Witness ==
  \E i, j \in DOMAIN hfCandBs :
    /\ hfCandBs[i] = BaseCand
    /\ \E st \in StatusOf(i) : TESTBIT(st, RecoTopol)
    /\ hfCandBs[j] = [BaseCand EXCEPT !.cpa = 8]
    /\ StatusOf(j) = {1}

-----------------------------------------------------------------------------
(* k1analysis: configuration *)
(* Units: pT in 0.01 GeV/c, DCA in 0.01 cm, nSigma in tenths, masses in    *)
(* MeV/c^2, rapidity in hundredths.                                        *)

NEvents == 2
NTracks == 3

nEvtMixing == 5
cMinPtcut == 15
cMaxDCArToPVcut == 50
cMaxDCAzToPVcut == 200
cMinDCAzToPVcut == 0
cMaxTPCnSigmaPion == 20
cMaxTPCnSigmaPion_bach == 20
cMaxTOFnSigmaPion == 20
cMaxTOFnSigmaPion_bach == 20
cK892masswindow == 100
cK1MaxRap == 50
cK1MinRap == 0 - 50

massKa == 494
massPi == 140
massK892 == 896

\* enum k1Type
kMatterPos == 1
kMatterNeg == 2
kAntiPos == 3
kAntiNeg == 4
kMatterPos_Mix == 5
kMatterNeg_Mix == 6
kAntiPos_Mix == 7
kAntiNeg_Mix == 8

\* enum k892Type
kK892Matter == 1
kK892Anti == 2

\* The configurations of the kaon PID lists, the bachelor TOF switch and the
\* pion-pair mass window the task is run with
K1ConfigSet ==
  {[kaonTPCPIDpTintv |-> <<99900>>, kaonTPCPIDcuts |-> <<20>>,
    kaonTOFPIDpTintv |-> <<99900>>, kaonTOFPIDcuts |-> <<20>>,
    cDoTOFPID |-> 1, cPiPiMin |-> 0, cPiPiMax |-> 999000],
   [kaonTPCPIDpTintv |-> <<150, 99900>>, kaonTPCPIDcuts |-> <<10, 20>>,
    kaonTOFPIDpTintv |-> <<150, 99900>>, kaonTOFPIDcuts |-> <<10, 20>>,
    cDoTOFPID |-> 0, cPiPiMin |-> 300, cPiPiMax |-> 600]}

-----------------------------------------------------------------------------
(* k1analysis: input tables *)

\* Charge signs a reconstructed track carries: sign() is the sign of the
\* track curvature, +1 or -1, never 0
Signs == {-1, 1}

\* mixing bins colBinning assigns; -1 is outside all bins
MixBins == {-1, 0, 1}

\* a collision in the mixing bin every collision is in unless stated otherwise
BaseCollision == [bin |-> 0]

\* A track of collision c with charge sign s that passes every cut in every role
BaseTrack(c, s) ==
  [collisionId |-> c, sign |-> s, pt |-> 100, dcaXY |-> 10, dcaZ |-> 10,
   tpcNSigmaPi |-> 0, tofNSigmaPi |-> 0, tpcNSigmaKa |-> 0, tofNSigmaKa |-> 0,
   tofPIDselectionFlag |-> 1, p |-> 131, y |-> 0]

\* Values the fields of a track take in the inputs
TrackValues ==
  [pt |-> {10, 100}, dcaXY |-> {-10, 10, 60}, dcaZ |-> {-10, 10, 300},
   tpcNSigmaPi |-> {0, 30}, tofNSigmaPi |-> {0, 30},
   tpcNSigmaKa |-> {0, 15, 30}, tofNSigmaKa |-> {0, 15, 30},
   tofPIDselectionFlag |-> {0, 1}, p |-> {131, 400}, y |-> {-60, 0, 60}]

\* collision ids of a table grouped by collision
GroupedIds == {f \in [1..NTracks -> 1..NEvents] :
                 \A g \in 1..(NTracks - 1) : f[g] <= f[g + 1]}

\* rows of the track table that belong to collision c
RowsOf(c) == {g \in DOMAIN resotracks : resotracks[g].collisionId = c}

\* index() of row g: its position in the table, or in the slice of its collision
Index(g) ==
  IF indexIsGlobal THEN g - 1
  ELSE Cardinality({h \in RowsOf(resotracks[g].collisionId) : h < g})

-----------------------------------------------------------------------------
(* k1analysis: kinematics, a stand-in for the TLorentzVector arithmetic *)

\* (lDecayDaughter1 + lDecayDaughter2).M()
MassK892(trk1, trk2) == massPi + massKa + resotracks[trk1].p + resotracks[trk2].p

\* lResonanceK1.Rapidity()
RapidityK1(trk1, trk2, bTrack) ==
  resotracks[trk1].y + resotracks[trk2].y + resotracks[bTrack].y

\* tempPiPi.M()
MassPiPi(trk1, bTrack) == massPi + massPi + resotracks[trk1].p + resotracks[bTrack].p

-----------------------------------------------------------------------------
(* k1analysis::trackCut and the track pre-selection *)

trackCut(track) ==
  IF track.pt < cMinPtcut THEN FALSE
  ELSE IF track.dcaXY > cMaxDCArToPVcut THEN FALSE
  ELSE IF track.dcaZ < cMinDCAzToPVcut \/ track.dcaZ > cMaxDCAzToPVcut THEN FALSE
  ELSE TRUE

\* the Partition expression of processData and processME
selectedTracks(rows) ==
  {g \in rows : /\ resotracks[g].pt > cMinPtcut
                /\ Abs(resotracks[g].dcaZ) > cMinDCAzToPVcut
                /\ Abs(resotracks[g].dcaZ) < cMaxDCAzToPVcut
                /\ Abs(resotracks[g].dcaXY) < cMaxDCArToPVcut}

-----------------------------------------------------------------------------
(* k1analysis::fillHistograms *)

\* v[i] of a std::vector, i counted from 0: the element, or whatever the
\* memory past the end holds when i is not below v.size()
At(v, i) == IF i + 1 \in DOMAIN v THEN v[i + 1] ELSE wild.value

RECURSIVE kaonPIDLoop_lastWins(_, _, _, _, _, _, _)
kaonPIDLoop_lastWins(i, n, ptKa, nSigmaKa, pTintv, cutv, selected) ==
  IF i >= n THEN selected
  ELSE kaonPIDLoop_lastWins(i + 1, n, ptKa, nSigmaKa, pTintv, cutv,
                            IF ptKa < At(pTintv, i)
                            THEN ~(Abs(nSigmaKa) > At(cutv, i))
                            ELSE selected)

\* the kaon breakpoint loop: every breakpoint above the track's pT whose
\* bound the nSigma exceeds clears the flag
RECURSIVE kaonPIDLoop(_, _, _, _, _, _, _)
kaonPIDLoop(i, n, ptKa, nSigmaKa, pTintv, cutv, selected) ==
  IF i >= n THEN selected
  ELSE kaonPIDLoop(i + 1, n, ptKa, nSigmaKa, pTintv, cutv,
                   IF ptKa < At(pTintv, i) /\ Abs(nSigmaKa) > At(cutv, i)
                   THEN FALSE ELSE selected)

\* one element access: the vector read, the index and the vector's size
Read(name, i, v) == [list |-> name, i |-> i, size |-> Len(v)]

\* the element accesses of one breakpoint loop: the breakpoint at every
\* iteration, the bound at the iterations whose breakpoint is above ptKa
RECURSIVE kaonLoopReads(_, _, _, _, _, _, _)
kaonLoopReads(i, n, ptKa, pName, pTintv, cName, cutv) ==
  IF i >= n THEN {}
  ELSE {Read(pName, i, pTintv)}
       \cup (IF ptKa < At(pTintv, i) THEN {Read(cName, i, cutv)} ELSE {})
       \cup kaonLoopReads(i + 1, n, ptKa, pName, pTintv, cName, cutv)

\* (track.tofPIDselectionFlag() & aod::resodaughter::kHasTOF) == aod::resodaughter::kHasTOF
hasTOF(track) == TESTBIT(track.tofPIDselectionFlag, 0)

isTrk1Selected(trk1) ==
  LET t == resotracks[trk1]
      afterTPC == IF Abs(t.tpcNSigmaPi) > cMaxTPCnSigmaPion THEN FALSE ELSE TRUE
  IN IF hasTOF(t) /\ Abs(t.tofNSigmaPi) > cMaxTOFnSigmaPion THEN FALSE ELSE afterTPC

isTrk2Selected(trk2) ==
  LET t == resotracks[trk2]
      lengthOfkaonTPCPIDpTintv == Len(kaonTPCPIDpTintv)
      afterTPC == kaonPIDLoop(0, lengthOfkaonTPCPIDpTintv, t.pt, t.tpcNSigmaKa,
                              kaonTPCPIDpTintv, kaonTPCPIDcuts, TRUE)
  IN IF hasTOF(t)
     THEN kaonPIDLoop(0, lengthOfkaonTPCPIDpTintv, t.pt, t.tofNSigmaKa,
                      kaonTOFPIDpTintv, kaonTOFPIDcuts, afterTPC)
     ELSE afterTPC

\* the element accesses the two breakpoint loops make for kaon candidate trk2
trk2Reads(trk2) ==
  LET t == resotracks[trk2]
      lengthOfkaonTPCPIDpTintv == Len(kaonTPCPIDpTintv)
  IN kaonLoopReads(0, lengthOfkaonTPCPIDpTintv, t.pt,
                   "kaonTPCPIDpTintv", kaonTPCPIDpTintv, "kaonTPCPIDcuts", kaonTPCPIDcuts)
     \cup (IF hasTOF(t)
           THEN kaonLoopReads(0, lengthOfkaonTPCPIDpTintv, t.pt,
                              "kaonTOFPIDpTintv", kaonTOFPIDpTintv,
                              "kaonTOFPIDcuts", kaonTOFPIDcuts)
           ELSE {})

isbTrkSelected(bTrack) ==
  LET t == resotracks[bTrack]
      afterTPC == IF Abs(t.tpcNSigmaPi) > cMaxTPCnSigmaPion_bach THEN FALSE ELSE TRUE
  IN IF cDoTOFPID # 0 /\ hasTOF(t) /\ Abs(t.tofNSigmaPi) > cMaxTOFnSigmaPion_bach
     THEN FALSE ELSE afterTPC

pairTracks_first(dTracks1, dTracks2) == dTracks1

\* the track list the pion and kaon daughters are both drawn from
pairTracks(dTracks1, dTracks2) == dTracks2

bachelorTracks_second(dTracks1, dTracks2) == dTracks2

\* the track list the bachelor pion is drawn from
bachelorTracks(dTracks1, dTracks2) == dTracks1

sameSignPair_inverted(sign1, sign2) == sign1 * sign2 < 0

\* trk1.sign() * trk2.sign() > 0
sameSignPair(sign1, sign2) == sign1 * sign2 > 0

bachIsDaughter_pionOnly(bTrack, trk1, trk2) == Index(bTrack) = Index(trk1)

\* the ID cut of the third-track loop
bachIsDaughter(bTrack, trk1, trk2) ==
  Index(bTrack) = Index(trk1) \/ Index(bTrack) = Index(trk2)

\* the cuts a pair passes to reach the QA plots before the selection
pairAtQA(trk1, trk2) ==
  /\ ~(Index(trk1) = Index(trk2))
  /\ ~sameSignPair(resotracks[trk1].sign, resotracks[trk2].sign)
  /\ trackCut(resotracks[trk1])
  /\ trackCut(resotracks[trk2])

\* "Apply the selection": the PID flags of the pair
pairSelected(trk1, trk2) == ~(~isTrk1Selected(trk1) \/ ~isTrk2Selected(trk2))

\* the mass window cut, after which the third-track loop is entered
pairInWindow(trk1, trk2) == ~(Abs(MassK892(trk1, trk2) - massK892) > cK892masswindow)

\* the cuts a bachelor passes to reach the QA plots before its selection
bachAtQA(trk1, trk2, bTrack) ==
  ~bachIsDaughter(bTrack, trk1, trk2) /\ trackCut(resotracks[bTrack])

\* the rapidity cut
k1InRapidity(trk1, trk2, bTrack) ==
  ~(RapidityK1(trk1, trk2, bTrack) > cK1MaxRap \/ RapidityK1(trk1, trk2, bTrack) < cK1MinRap)

piPiInWindow_fixedWindow(trk1, bTrack) ==
  ~(MassPiPi(trk1, bTrack) < 300 \/ MassPiPi(trk1, bTrack) > 600)

\* the pion-pair mass cut
piPiInWindow(trk1, bTrack) ==
  ~(MassPiPi(trk1, bTrack) < cPiPiMin \/ MassPiPi(trk1, bTrack) > cPiPiMax)

isK892Anti(trk2) == resotracks[trk2].sign > 0

k1TagOf_mixUsesReal(IsMix, bSign, isAnti) ==
  IF bSign > 0
  THEN (IF ~isAnti THEN kMatterPos ELSE kAntiPos)
  ELSE (IF ~isAnti THEN kMatterNeg ELSE kAntiNeg)

\* the k1Type a K1 combination is filled under, by mixing mode, bachelor
\* charge sign and isK892Anti
k1TagOf(IsMix, bSign, isAnti) ==
  IF ~IsMix
  THEN IF bSign > 0
       THEN (IF ~isAnti THEN kMatterPos ELSE kAntiPos)
       ELSE (IF ~isAnti THEN kMatterNeg ELSE kAntiNeg)
  ELSE IF bSign > 0
       THEN (IF ~isAnti THEN kMatterPos_Mix ELSE kAntiPos_Mix)
       ELSE (IF ~isAnti THEN kMatterNeg_Mix ELSE kAntiNeg_Mix)

\* the category of a K1 combination
k1Tag(IsMix, trk2, bTrack) == k1TagOf(IsMix, resotracks[bTrack].sign, isK892Anti(trk2))

\* whether the K1 combination also goes to the quick-check histogram k1invmass
k1QuickCheck(trk2, bTrack) == (resotracks[bTrack].sign > 0) = ~isK892Anti(trk2)

\* one histos.fill call, or one group of fill calls made together
Fill(hist, tag, IsMix, collision, trk1, trk2, bTrack) ==
  [hist |-> hist, tag |-> tag, mix |-> IsMix, collision |-> collision,
   trk1 |-> trk1, trk2 |-> trk2, bTrack |-> bTrack]

\* The pair QA block under directory dir. "pair" stands for the fills of
\* TPC_Nsigma_pi, TPC_Nsigmaka, trkpT_pi and trkpT_ka; "pairTOF" for those of
\* TOF_Nsigma_pi, TOF_TPC_Map_pi, TOF_Nsigma_ka and TOF_TPC_Map_ka, all four
\* made when the pion daughter has TOF
pairQAHists(dir, trk1) ==
  {<<dir, "pair">>} \cup (IF hasTOF(resotracks[trk1]) THEN {<<dir, "pairTOF">>} ELSE {})

\* The bachelor QA block under directory dir. "bach" stands for the fills of
\* trkpT_pi_bach and TPC_Nsigma_pi_bach; "bachTOF" for those of
\* TOF_Nsigma_pi_bach and TOF_TPC_Map_pi_bach, made when the pion daughter has TOF
bachQAHists(dir, trk1) ==
  {<<dir, "bach">>} \cup (IF hasTOF(resotracks[trk1]) THEN {<<dir, "bachTOF">>} ELSE {})

\* the fills of one call, and the pairs whose third-track loop it enters
fillHistograms(IsMix, collision, dTracks1, dTracks2) ==
  LET daughters == pairTracks(dTracks1, dTracks2)
      bachelors == bachelorTracks(dTracks1, dTracks2)
      atQA == {pr \in daughters \X daughters : pairAtQA(pr[1], pr[2])}
      selected == {pr \in atQA : pairSelected(pr[1], pr[2])}
      inWindow == {pr \in selected : pairInWindow(pr[1], pr[2])}
      bAtQA == {tr \in inWindow \X bachelors : bachAtQA(tr[1][1], tr[1][2], tr[2])}
      bSel == {tr \in bAtQA : isbTrkSelected(tr[2])}
      inRap == {tr \in bSel : k1InRapidity(tr[1][1], tr[1][2], tr[2])}
      kept == {tr \in inRap : piPiInWindow(tr[1][1], tr[2])}
      pairFills ==
        IF IsMix THEN {}
        ELSE UNION {{Fill(h, 0, IsMix, collision, pr[1], pr[2], 0) :
                       h \in pairQAHists("QAbefore", pr[1])} : pr \in atQA}
             \cup UNION {{Fill(h, 0, IsMix, collision, pr[1], pr[2], 0) :
                            h \in pairQAHists("QAafter", pr[1])} : pr \in selected}
             \cup {Fill(<<"", "k892invmass">>, 0, IsMix, collision, pr[1], pr[2], 0) :
                     pr \in selected}
             \cup {Fill(<<"", "THnK892invmass">>,
                        IF isK892Anti(pr[2]) THEN kK892Anti ELSE kK892Matter,
                        IsMix, collision, pr[1], pr[2], 0) : pr \in selected}
      bachFills ==
        IF IsMix THEN {}
        ELSE UNION {{Fill(h, 0, IsMix, collision, tr[1][1], tr[1][2], tr[2]) :
                       h \in bachQAHists("QAbefore", tr[1][1])} : tr \in bAtQA}
             \cup UNION {{Fill(h, 0, IsMix, collision, tr[1][1], tr[1][2], tr[2]) :
                            h \in bachQAHists("QAafter", tr[1][1])} : tr \in bSel}
             \cup {Fill(<<"QAMCbefore", "InvMass_piK_pipi">>, 0, IsMix, collision,
                        tr[1][1], tr[1][2], tr[2]) : tr \in inRap}
      k1Fills ==
        {Fill(<<"", "THnK1invmass">>, k1Tag(IsMix, tr[1][2], tr[2]), IsMix, collision,
              tr[1][1], tr[1][2], tr[2]) : tr \in kept}
        \cup {Fill(<<"", "k1invmass">>, 0, IsMix, collision, tr[1][1], tr[1][2], tr[2]) :
                tr \in {t \in kept : k1QuickCheck(t[1][2], t[2])}}
  IN [fills |-> pairFills \cup bachFills \cup k1Fills,
      loops |-> {[mix |-> IsMix, collision |-> collision, trk1 |-> pr[1], trk2 |-> pr[2]] :
                   pr \in inWindow},
      reads |-> UNION {trk2Reads(pr[2]) : pr \in atQA}]

-----------------------------------------------------------------------------
(* k1analysis: process functions *)

\* What the calls of one process function leave behind. A read past the end
\* of a vector either yields wild.value or, when wild.fault, ends the run
\* before anything is written out
k1Step(results, after) ==
  LET reads == UNION {r.reads : r \in results}
      fault == wild.fault /\ \E rd \in reads : rd.i >= rd.size
  IN /\ kaonReads' = kaonReads \cup reads
     /\ histos' = IF fault THEN histos ELSE histos \cup UNION {r.fills : r \in results}
     /\ thirdLoops' = IF fault THEN thirdLoops
                      ELSE thirdLoops \cup UNION {r.loops : r \in results}
     /\ k1pc' = IF fault THEN "fault" ELSE after

\* processData: every collision with its pre-selected tracks
processData ==
  /\ k1pc = "start"
  /\ k1Step({LET colTracks == selectedTracks(DOMAIN resotracks) \cap RowsOf(c)
              IN fillHistograms(FALSE, c, colTracks, colTracks) : c \in DOMAIN collisions},
            "processData")
  /\ UNCHANGED <<k1Cfg, nextCol, selVars>>

\* processDataLight: one collision with all of its tracks
processDataLight ==
  /\ k1pc \in {"start", "processDataLight"}
  /\ nextCol <= Len(collisions)
  /\ k1Step({fillHistograms(FALSE, nextCol, RowsOf(nextCol), RowsOf(nextCol))},
            "processDataLight")
  /\ nextCol' = nextCol + 1
  /\ UNCHANGED <<k1Cfg, selVars>>

\* SameKindPair: every collision with the collisions after it in the same
\* mixing bin, at most nEvtMixing of them; collisions outside all bins are skipped
mixingPairs ==
  {pr \in (DOMAIN collisions) \X (DOMAIN collisions) :
     /\ pr[1] < pr[2]
     /\ collisions[pr[1]].bin # -1
     /\ collisions[pr[1]].bin = collisions[pr[2]].bin
     /\ Cardinality({c \in DOMAIN collisions :
                       /\ pr[1] < c /\ c <= pr[2]
                       /\ collisions[c].bin = collisions[pr[1]].bin}) <= nEvtMixing}

\* processME: every mixing pair with the pre-selected tracks of both collisions
processME ==
  /\ k1pc = "start"
  /\ k1Step({fillHistograms(TRUE, pr[1], selectedTracks(RowsOf(pr[1])),
                            selectedTracks(RowsOf(pr[2]))) : pr \in mixingPairs},
            "processME")
  /\ UNCHANGED <<k1Cfg, nextCol, selVars>>

-----------------------------------------------------------------------------
(* Specification of the k1analysis task *)

\* the selector task as constructed, never run
SelIdle ==
  /\ pc = "idle"
  /\ usePid = TRUE /\ acceptPIDNotApplicable = TRUE /\ activateQA = FALSE
  /\ workflows = <<>>
  /\ selectionFlagDAndUsePidInSync = TRUE
  /\ hfCandBs = <<>> /\ hfSelBplusToD0PiCandidate = <<>> /\ rowOwner = <<>>
  /\ registry = <<>> /\ callLog = <<>>

\* the ways an input leaves the baseline: not at all, one field of one track,
\* or the mixing bin of one collision
Deviations ==
  {[kind |-> "none"]}
  \cup UNION {{[kind |-> "track", row |-> k, field |-> f, value |-> v] :
                 k \in 1..NTracks, v \in TrackValues[f]} : f \in DOMAIN TrackValues}
  \cup {[kind |-> "bin", col |-> c, value |-> b] : c \in 1..NEvents, b \in MixBins}

\* a data frame: any grouping of the tracks into collisions, any charge signs,
\* either index policy, a configuration of K1ConfigSet, and at most one
\* deviation from BaseTrack and BaseCollision
InitK1 ==
  /\ SelIdle
  /\ \E cfg \in K1ConfigSet :
       /\ kaonTPCPIDpTintv = cfg.kaonTPCPIDpTintv /\ kaonTPCPIDcuts = cfg.kaonTPCPIDcuts
       /\ kaonTOFPIDpTintv = cfg.kaonTOFPIDpTintv /\ kaonTOFPIDcuts = cfg.kaonTOFPIDcuts
       /\ cDoTOFPID = cfg.cDoTOFPID /\ cPiPiMin = cfg.cPiPiMin /\ cPiPiMax = cfg.cPiPiMax
  /\ indexIsGlobal \in BOOLEAN
  /\ \E ids \in GroupedIds : \E sg \in [1..NTracks -> Signs] : \E d \in Deviations :
       /\ collisions = [c \in 1..NEvents |->
                          IF d.kind = "bin" /\ d.col = c
                          THEN [BaseCollision EXCEPT !.bin = d.value]
                          ELSE BaseCollision]
       /\ resotracks = [g \in 1..NTracks |->
                          IF d.kind = "track" /\ d.row = g
                          THEN [BaseTrack(ids[g], sg[g]) EXCEPT ![d.field] = d.value]
                          ELSE BaseTrack(ids[g], sg[g])]
  /\ k1pc = "start" /\ nextCol = 1
  /\ histos = {} /\ thirdLoops = {}
  /\ kaonReads = {} /\ wild = [fault |-> FALSE, value |-> 0]

NextK1 == processData \/ processDataLight \/ processME

SpecK1 == InitK1 /\ [][NextK1]_vars

-----------------------------------------------------------------------------
(* Properties of the k1analysis task *)

\* the collision a row of the track table belongs to
EventOf(g) == resotracks[g].collisionId

\* the track rows a fill was made for
RolesOf(f) == {f.trk1, f.trk2} \cup (IF f.bTrack = 0 THEN {} ELSE {f.bTrack})

\* two charge signs are opposite
OppositeSign(sign1, sign2) == sign1 # 0 /\ sign1 = 0 - sign2

\* C6: a pair whose pion and kaon tracks do not have opposite charge signs
\* reaches no histogram fill and never enters the third-track loop
C6_OnlyOppositeSignPairs ==
  /\ \A f \in histos : OppositeSign(resotracks[f.trk1].sign, resotracks[f.trk2].sign)
  /\ \A l \in thirdLoops : OppositeSign(resotracks[l.trk1].sign, resotracks[l.trk2].sign)

C6_Witness ==
  /\ k1pc = "processData"
  /\ histos # {}
  /\ \E a, b \in DOMAIN resotracks :
       /\ a # b
       /\ resotracks[a] = BaseTrack(1, 1) /\ resotracks[b] = BaseTrack(1, 1)
       /\ \A f \in histos : ~(f.trk1 = a /\ f.trk2 = b)

\* C7: the pion, kaon and bachelor of every recorded combination have
\* pairwise distinct track indices
C7_DistinctTrackIndices ==
  \A f \in histos :
    /\ Index(f.trk1) # Index(f.trk2)
    /\ f.bTrack # 0 => (Index(f.bTrack) # Index(f.trk1) /\ Index(f.bTrack) # Index(f.trk2))

C7_Witness ==
  \E f \in histos :
    /\ f.hist = <<"", "THnK1invmass">>
    /\ ~f.mix
    /\ Cardinality({Index(g) : g \in RolesOf(f)}) = 3

\* C8: the tracks of every combination recorded by processME come from
\* exactly two collisions, both in the same mixing bin, and the pair whose
\* third-track loop is entered is never from the collision it is mixed with
C8_MixedFromTwoEventsOfOneBin ==
  /\ \A f \in histos :
       f.mix => /\ Cardinality({EventOf(g) : g \in RolesOf(f)}) = 2
                /\ f.collision \in {EventOf(g) : g \in RolesOf(f)}
                /\ \A g \in RolesOf(f) :
                     collisions[EventOf(g)].bin = collisions[f.collision].bin
  /\ \A l \in thirdLoops :
       l.mix => /\ EventOf(l.trk1) # l.collision
                /\ EventOf(l.trk2) # l.collision
                /\ collisions[EventOf(l.trk1)].bin = collisions[l.collision].bin
                /\ collisions[EventOf(l.trk2)].bin = collisions[l.collision].bin

C8_Witness ==
  /\ k1pc = "processME"
  /\ \E f \in histos :
       /\ f.mix
       /\ f.tag \in {kMatterPos_Mix, kMatterNeg_Mix, kAntiPos_Mix, kAntiNeg_Mix}
       /\ EventOf(f.bTrack) # EventOf(f.trk1)

\* the fills of the K1 mass histogram
K1Fills == {f \in histos : f.hist = <<"", "THnK1invmass">>}

\* two fills made for the same combination in the same call
SameCombination(f, g) ==
  /\ f.mix = g.mix /\ f.collision = g.collision
  /\ f.trk1 = g.trk1 /\ f.trk2 = g.trk2 /\ f.bTrack = g.bTrack

\* the category tags a same-event pass and a mixed pass can fill
RealK1Tags == {k1TagOf(FALSE, s, a) : s \in Signs, a \in BOOLEAN}
MixK1Tags == {k1TagOf(TRUE, s, a) : s \in Signs, a \in BOOLEAN}

\* the tag prescribed for a bachelor sign, a kaon sign and a mode
TagPrescribed(mix, bSign, kaSign) ==
  LET matter == kaSign < 0
      real == IF bSign > 0 THEN (IF matter THEN kMatterPos ELSE kAntiPos)
              ELSE (IF matter THEN kMatterNeg ELSE kAntiNeg)
  IN IF mix THEN real + 4 ELSE real

\* every combination that passed the rapidity cut and the pion-pair mass
\* cut is in the K1 mass histogram under exactly one tag, the one its
\* bachelor sign, kaon sign and mode prescribe; same-event passes fill real
\* tags only and mixed passes mixed tags only
C15_OneTagPerCombination ==
  /\ \A f \in K1Fills :
       /\ f.tag = TagPrescribed(f.mix, resotracks[f.bTrack].sign, resotracks[f.trk2].sign)
       /\ f.tag \in (IF f.mix THEN MixK1Tags ELSE RealK1Tags)
       /\ \A g \in K1Fills : SameCombination(f, g) => g.tag = f.tag
  /\ \A f \in histos :
       (f.hist = <<"QAMCbefore", "InvMass_piK_pipi">> /\ piPiInWindow(f.trk1, f.bTrack))
         => \E g \in K1Fills : SameCombination(f, g)
  /\ RealK1Tags \cap MixK1Tags = {}
  /\ Cardinality({<<m, s, a>> : m \in BOOLEAN, s \in Signs, a \in BOOLEAN})
       = Cardinality(RealK1Tags \cup MixK1Tags)

\* C15 as stated: one tag per surviving combination, fixed by bachelor sign,
\* kaon sign and mode, with eight category tags for real combinations and a
\* parallel eight for mixed combinations
C15_EightRealEightMixed ==
  /\ C15_OneTagPerCombination
  /\ K1Fills # {} => (Cardinality(RealK1Tags) = 8 /\ Cardinality(MixK1Tags) = 8)

\* C15 (amended): one tag per surviving combination, fixed by bachelor sign,
\* kaon sign and mode, with four category tags for real combinations and a
\* parallel four for mixed combinations, eight in all
C15_FourRealFourMixed ==
  /\ C15_OneTagPerCombination
  /\ K1Fills # {} => (Cardinality(RealK1Tags) = 4 /\ Cardinality(MixK1Tags) = 4)

C15_Witness ==
  /\ k1pc = "processData"
  /\ \E f, g \in K1Fills :
       /\ ~f.mix /\ ~g.mix
       /\ f.tag = kMatterPos /\ g.tag = kAntiPos

\* the breakpoints of a list that apply to a kaon of transverse momentum ptKa
Applicable(ptKa, pTintv) == {i \in DOMAIN pTintv : ptKa < pTintv[i]}

\* the last element of a non-empty set of list positions
Last(S) == CHOOSE i \in S : \A j \in S : j <= i

\* the kaon's nSigma is within the bound of every applicable breakpoint
KaonWithinAll(t) ==
  /\ \A i \in Applicable(t.pt, kaonTPCPIDpTintv) : Abs(t.tpcNSigmaKa) <= kaonTPCPIDcuts[i]
  /\ hasTOF(t) => \A i \in Applicable(t.pt, kaonTOFPIDpTintv) :
                     Abs(t.tofNSigmaKa) <= kaonTOFPIDcuts[i]

\* the kaon's nSigma is within the bound of the last applicable breakpoint
KaonWithinLast(t) ==
  /\ Applicable(t.pt, kaonTPCPIDpTintv) # {}
       => Abs(t.tpcNSigmaKa) <= kaonTPCPIDcuts[Last(Applicable(t.pt, kaonTPCPIDpTintv))]
  /\ (hasTOF(t) /\ Applicable(t.pt, kaonTOFPIDpTintv) # {})
       => Abs(t.tofNSigmaKa) <= kaonTOFPIDcuts[Last(Applicable(t.pt, kaonTOFPIDpTintv))]

\* the pair of a fill of the pair QA plots before the selection is also in
\* the plots after the selection
PairKept(f) ==
  \E g \in histos : g.hist = <<"QAafter", "pair">> /\ SameCombination(f, g)

\* C16 as stated: the last applicable breakpoint wins, so a pair whose pion
\* is selected and whose kaon is within the bound of the last applicable
\* breakpoint passes the selection even when the kaon violates an earlier one
C16_LastBreakpointWins ==
  \A f \in histos :
    f.hist = <<"QAbefore", "pair">>
      => ((isTrk1Selected(f.trk1) /\ KaonWithinLast(resotracks[f.trk2])) <=> PairKept(f))

\* C16 (amended): every applicable breakpoint gates the kaon and a rejection
\* is never overridden: a pair passes the selection exactly when its pion is
\* selected and its kaon is within the bound of every applicable breakpoint
C16_EveryBreakpointGates ==
  /\ \A f \in histos :
       f.hist = <<"QAbefore", "pair">>
         => ((isTrk1Selected(f.trk1) /\ KaonWithinAll(resotracks[f.trk2])) <=> PairKept(f))
  /\ \A l \in thirdLoops : KaonWithinAll(resotracks[l.trk2])

C16_Witness ==
  /\ kaonTPCPIDcuts = <<10, 20>>
  /\ \E f \in histos :
       /\ f.hist = <<"QAbefore", "pair">>
       /\ resotracks[f.trk2].tpcNSigmaKa = 15
       /\ Applicable(resotracks[f.trk2].pt, kaonTPCPIDpTintv) = {1, 2}
       /\ ~PairKept(f)

\* the pion-kaon pairs seen in the histograms or entering the third-track loop
PairsSeen ==
  {[mix |-> f.mix, collision |-> f.collision, trk1 |-> f.trk1, trk2 |-> f.trk2] :
     f \in histos} \cup thirdLoops

\* the cuts between the index check and the third-track loop
PairGates(a, b) ==
  /\ ~sameSignPair(resotracks[a].sign, resotracks[b].sign)
  /\ trackCut(resotracks[a]) /\ trackCut(resotracks[b])
  /\ pairSelected(a, b) /\ pairInWindow(a, b)

\* C17 as stated: the pion is drawn from the first track list and the kaon
\* from the second, so in a mixed pass the pion is a track of the collision
\* the call is made for and the kaon a track of the collision mixed with it
C17_PionFirstKaonSecond ==
  \A l \in PairsSeen :
    /\ Index(l.trk1) # Index(l.trk2)
    /\ EventOf(l.trk1) = l.collision
    /\ l.mix => EventOf(l.trk2) # l.collision

\* C17 (amended): pion and kaon are both drawn from the second track list,
\* the first supplying only the bachelor; every ordered pair of that list with
\* different indices is considered, so each unordered pair is seen in both
\* role assignments
C17_BothDaughtersFromSecond ==
  /\ \A l \in PairsSeen :
       /\ Index(l.trk1) # Index(l.trk2)
       /\ EventOf(l.trk1) = EventOf(l.trk2)
       /\ l.mix <=> EventOf(l.trk2) # l.collision
  /\ k1pc = "processME"
       => \A pr \in mixingPairs : \A a, b \in selectedTracks(RowsOf(pr[2])) :
            (a # b /\ PairGates(a, b))
              => [mix |-> TRUE, collision |-> pr[1], trk1 |-> a, trk2 |-> b] \in thirdLoops
  /\ \A f \in histos :
       f.hist = <<"QAbefore", "pair">>
         => \E g \in histos : /\ g.hist = <<"QAbefore", "pair">>
                               /\ g.collision = f.collision
                               /\ g.trk1 = f.trk2 /\ g.trk2 = f.trk1

C17_Witness ==
  /\ k1pc = "processME"
  /\ \E l, m \in thirdLoops :
       /\ l.mix /\ m.mix /\ l.collision = m.collision
       /\ l.trk1 = m.trk2 /\ l.trk2 = m.trk1
       /\ EventOf(l.trk1) # l.collision /\ EventOf(l.trk2) # l.collision
       /\ RowsOf(l.collision) # {}

\* the pion-pair mass cut has its default window, which no mass is outside of
PiPiCutOff == cPiPiMin = 0 /\ cPiPiMax = 999000

\* C18: the pion-pair mass is recorded in the 2-D plot before its cut and
\* rejects a combination only when it is outside the configured window;
\* with the default window every combination that passed the rapidity cut is
\* in the K1 mass histogram, in same-event and in mixed passes
C18_PiPiMassObservational ==
  /\ \A f \in histos :
       f.hist = <<"QAMCbefore", "InvMass_piK_pipi">>
         => /\ (\E g \in K1Fills : SameCombination(f, g))
                 <=> (cPiPiMin <= MassPiPi(f.trk1, f.bTrack)
                      /\ MassPiPi(f.trk1, f.bTrack) <= cPiPiMax)
            /\ PiPiCutOff => \E g \in K1Fills : SameCombination(f, g)
  /\ PiPiCutOff
       => \A l \in thirdLoops : \A b \in DOMAIN resotracks :
            (/\ l.mix /\ EventOf(b) = l.collision /\ b \in selectedTracks(DOMAIN resotracks)
             /\ bachAtQA(l.trk1, l.trk2, b) /\ isbTrkSelected(b)
             /\ k1InRapidity(l.trk1, l.trk2, b))
              => \E g \in K1Fills :
                   /\ g.mix /\ g.collision = l.collision
                   /\ g.trk1 = l.trk1 /\ g.trk2 = l.trk2 /\ g.bTrack = b

C18_Witness ==
  /\ PiPiCutOff
  /\ \E f \in histos :
       /\ f.hist = <<"QAMCbefore", "InvMass_piK_pipi">>
       /\ MassPiPi(f.trk1, f.bTrack) > 600
       /\ \E g \in K1Fills : SameCombination(f, g)

-----------------------------------------------------------------------------
(* Specification of the k1analysis task under any setting of the kaon lists *)

\* settings of a pT-interval list and of an nSigma list, the empty one included
PtIntvSet == {<<>>, <<99900>>, <<150, 99900>>}
NSigmaCutSet == {<<>>, <<20>>, <<10, 20>>}

\* What a read past the end of a vector can do: end the run, or yield a
\* value below or above every pT and nSigma
WildSet ==
  {[fault |-> TRUE, value |-> 0], [fault |-> FALSE, value |-> 0],
   [fault |-> FALSE, value |-> 99900]}

\* a data frame of tracks of alternating charge that share their kaon nSigma
\* and their TOF flag, under any combination of the four kaon lists
InitKaonLists ==
  /\ SelIdle
  /\ kaonTPCPIDpTintv \in PtIntvSet /\ kaonTPCPIDcuts \in NSigmaCutSet
  /\ kaonTOFPIDpTintv \in PtIntvSet /\ kaonTOFPIDcuts \in NSigmaCutSet
  /\ cDoTOFPID = 1 /\ cPiPiMin = 0 /\ cPiPiMax = 999000
  /\ indexIsGlobal = TRUE
  /\ wild \in WildSet
  /\ collisions = [c \in 1..NEvents |-> BaseCollision]
  /\ \E ids \in GroupedIds : \E nSigmaKa \in {0, 30} : \E tof \in {0, 1} :
       resotracks = [g \in 1..NTracks |->
                       [BaseTrack(ids[g], IF g % 2 = 1 THEN 1 ELSE -1)
                          EXCEPT !.tpcNSigmaKa = nSigmaKa, !.tofNSigmaKa = nSigmaKa,
                                 !.tofPIDselectionFlag = tof]]
  /\ k1pc = "start" /\ nextCol = 1
  /\ histos = {} /\ thirdLoops = {}
  /\ kaonReads = {}

SpecKaonLists == InitKaonLists /\ [][NextK1]_vars

\* a threshold table of the kaon gate is empty
EmptyKaonList ==
  \E v \in {kaonTPCPIDpTintv, kaonTPCPIDcuts, kaonTOFPIDpTintv, kaonTOFPIDcuts} : v = <<>>

\* C19: under a malformed configuration, here an empty kaon pT-interval or
\* nSigma list, the run stops at startup: no process function runs, no track
\* reaches a histogram, and no kaon passes the gate for lack of a cut
C19_MalformedConfigStopsRun ==
  EmptyKaonList
    => /\ k1pc \notin {"processData", "processDataLight", "processME"}
       /\ histos = {}

\* C20: every element access of the kaon TPC and TOF breakpoint loops is
\* within the bounds of the list read, whatever the lengths of the four lists
C20_KaonListReadsInBounds ==
  \A rd \in kaonReads : 0 <= rd.i /\ rd.i < rd.size

\* C21: once a process function has applied the partition, every track the
\* partition admits is also accepted by trackCut, whatever the signs of its
\* dcaZ and dcaXY
C21_TrackCutAgreesWithPartition ==
  k1pc \in {"processData", "processME"}
    => \A g \in selectedTracks(DOMAIN resotracks) : trackCut(resotracks[g])

====
